---- MODULE Spec2Model ----
(***************************************************************************)
(* Model of timeline.py: the skills timeline generator.                    *)
(*                                                                         *)
(* main() loads a table of (name, start, end), create_log_scale_timeline   *)
(* captures today = datetime.now(), log-transforms the dates, categorises  *)
(* and sorts the rows, adds one line trace and one label trace per row,    *)
(* computes the axis ticks, and save_timeline writes the PNG and the HTML. *)
(*                                                                         *)
(* Representation.                                                         *)
(*  - A string is a sequence of one-character strings.                     *)
(*  - A timestamp is an integer number of clock ticks since 1998-01-01     *)
(*    00:00; there are TicksPerDay ticks in a day, so a timestamp can fall *)
(*    inside a day, as datetime.now() always does. A table cell is a       *)
(*    record [isna, v]: isna is TRUE for a missing cell (NaN / NaT).       *)
(*  - years_ago + 1 = (4*days + 1461) / 1461 exactly, since 365.25 =       *)
(*    1461/4. A position -np.log(years_ago + 1) is the record              *)
(*    [kind |-> "finite", arg |-> 4*days + 1461]; np.log is strictly       *)
(*    increasing on the positive floats, so two finite positions compare   *)
(*    in the reverse order of their args (PosLT), and the position is 0    *)
(*    exactly when arg = 1461. np.log of a negative number is nan and      *)
(*    np.log(0) is -inf (numpy warns, it does not raise).                  *)
(*  - A line width is an exact rational, held as its numerator over        *)
(*    WidthDen = 5 * 1461.                                                 *)
(***************************************************************************)
EXTENDS Integers, Sequences, FiniteSets, TLC

VARIABLES pc, clock, today, csv, df, traces, tickvals, title_now, artifacts, err

vars == <<pc, clock, today, csv, df, traces, tickvals, title_now, artifacts, err>>

(***************************************************************************)
(* Bounds of the model.                                                    *)
(***************************************************************************)
\* ticks of the wall clock in a day (the resolution of a timestamp)
TicksPerDay == 2
\* how many ticks the wall clock may advance during one run
MaxClockAdvance == 1
\* rows of the input table
MaxEntries == 2
\* length of the generated names of SpecNames
MaxNameLen == 3

(***************************************************************************)
(* Strings: str.lower() and the `in` substring test (ASCII).               *)
(***************************************************************************)
UpperChars == <<"A","B","C","D","E","F","G","H","I","J","K","L","M",
                "N","O","P","Q","R","S","T","U","V","W","X","Y","Z">>
LowerChars == <<"a","b","c","d","e","f","g","h","i","j","k","l","m",
                "n","o","p","q","r","s","t","u","v","w","x","y","z">>

LowerChar(c) ==
    IF \E i \in DOMAIN UpperChars : UpperChars[i] = c
    THEN LowerChars[CHOOSE i \in DOMAIN UpperChars : UpperChars[i] = c]
    ELSE c

\* s.lower()
lower(s) == [i \in DOMAIN s |-> LowerChar(s[i])]

\* k in s
Contains(s, k) ==
    \E i \in 0..(Len(s) - Len(k)) : SubSeq(s, i + 1, i + Len(k)) = k

(***************************************************************************)
(* The category table (a dict: iteration is in insertion order) and the    *)
(* palette.                                                                *)
(***************************************************************************)
categories == <<
    [name |-> "Programming",
     keywords |-> << <<"C","+","+">>, <<"S","T","L">>,
                     <<"P","y","t","h","o","n">>,
                     <<"J","a","v","a","S","c","r","i","p","t">>,
                     <<"H","a","s","k","e","l","l">>, <<"G","o">>, <<"R">>,
                     <<"B","a","s","h">> >>],
    [name |-> "Tools & Systems",
     keywords |-> << <<"V","i">>, <<"G","i","t">>, <<"L","i","n","u","x">>,
                     <<"U","n","i","x">>, <<"M","a","k","e">>,
                     <<"C","M","a","k","e">>, <<"D","o","c","k","e","r">>,
                     <<"J","e","n","k","i","n","s">> >>],
    [name |-> "Protocols & Standards",
     keywords |-> << <<"T","C","P">>, <<"X","M","P","P">>, <<"S","I","P">>,
                     <<"F","I","X">>, <<"O","N","V","I","F">> >>],
    [name |-> "Platforms & Cloud",
     keywords |-> << <<"G","o","o","g","l","e"," ","C","l","o","u","d">>,
                     <<"A","W","S">>,
                     <<"C","l","o","u","d","f","l","a","r","e">>,
                     <<"R","a","s","p","b","e","r","r","y"," ","P","i">> >>],
    [name |-> "Frameworks & Libraries",
     keywords |-> << <<"Q","t">>, <<"J","U","C","E">>,
                     <<"Z","e","r","o","M","Q">>, <<"H","u","g","o">>,
                     <<"J","e","k","y","l","l">> >>],
    [name |-> "Other", keywords |-> << >>] >>

colors == <<"#2E86AB", "#A23B72", "#F18F01", "#C73E1D", "#592E83", "#048A81">>

\* a keyword test that forgets the lower() calls
AnyKeywordCaseSensitive(keywords, skill_name) ==
    \E j \in DOMAIN keywords : Contains(skill_name, keywords[j])

\* any(keyword.lower() in skill_name.lower() for keyword in keywords)
AnyKeyword(keywords, skill_name) ==
    \E j \in DOMAIN keywords : Contains(lower(skill_name), lower(keywords[j]))

\* the for loop of categorise_skill from the i-th item of categories on
RECURSIVE CategoriseFrom(_, _)
CategoriseFrom(i, skill_name) ==
    IF i > Len(categories) THEN "Other"
    ELSE IF AnyKeyword(categories[i].keywords, skill_name)
         THEN categories[i].name
         ELSE CategoriseFrom(i + 1, skill_name)

categorise_skill(skill_name) == CategoriseFrom(1, skill_name)

\* x.split(' ', 1)[-1] if ' ' in x else x
clean_name(x) ==
    IF \E i \in DOMAIN x : x[i] = " "
    THEN LET first == CHOOSE i \in DOMAIN x :
                          x[i] = " " /\ \A j \in 1..(i - 1) : x[j] # " "
         IN  SubSeq(x, first + 1, Len(x))
    ELSE x

\* the dict that df['category'].map(...) is given
category_order(category) ==
    CASE category = "Programming" -> 0
      [] category = "Tools & Systems" -> 1
      [] category = "Platforms & Cloud" -> 2
      [] category = "Protocols & Standards" -> 3
      [] category = "Frameworks & Libraries" -> 4
      [] category = "Other" -> 5

\* list(categories.keys()).index(category), 0-based
CategoryIndex(category) ==
    (CHOOSE i \in DOMAIN categories : categories[i].name = category) - 1

\* colors[color_idx % len(colors)]
color_of(category) == colors[(CategoryIndex(category) % Len(colors)) + 1]

(***************************************************************************)
(* Calendar and timestamps.                                                *)
(***************************************************************************)
\* range(1998, 2026, 3): the years of the axis ticks
TickStart == 1998
TickStop == 2026
TickStep == 3

TickYears ==
    LET n == (TickStop - TickStart + TickStep - 1) \div TickStep
    IN  [k \in 1..n |-> TickStart + (k - 1) * TickStep]

\* days of the proleptic Gregorian calendar before Jan 1 of year y
DaysBeforeYear(y) ==
    365 * (y - 1) + ((y - 1) \div 4) - ((y - 1) \div 100) + ((y - 1) \div 400)

\* pd.to_datetime(f'{year}-01-01'), in ticks since Jan 1 of TickStart
JanFirst(year) == (DaysBeforeYear(year) - DaysBeforeYear(TickStart)) * TicksPerDay

\* a present cell, the missing timestamp (NaT, or None for a reference date)
\* and the missing name (the float nan)
Cell(v) == [isna |-> FALSE, v |-> v]
NaT == [isna |-> TRUE, v |-> 0]
NaNName == [isna |-> TRUE, v |-> << >>]

\* timedelta.days: whole days, rounded towards minus infinity
TimedeltaDays(ticks) == ticks \div TicksPerDay

\* (a - b).days for two timestamp cells; NaT gives nan
DaysBetween(a, b) ==
    IF a.isna \/ b.isna THEN NaT ELSE Cell(TimedeltaDays(a.v - b.v))

(***************************************************************************)
(* Positions: -np.log(x) for x = arg / YearQuarterDays.                    *)
(***************************************************************************)
\* 365.25 days = 1461 quarter days
YearQuarterDays == 1461

NaNPos == [kind |-> "nan", arg |-> 0]
InfPos == [kind |-> "inf", arg |-> 0]

\* -np.log(arg / YearQuarterDays)
NegLog(arg) ==
    IF arg > 0 THEN [kind |-> "finite", arg |-> arg]
    ELSE IF arg = 0 THEN InfPos
    ELSE NaNPos

\* float comparisons of two positions (every comparison with nan is false)
PosLT(p, q) ==
    \/ p.kind = "finite" /\ q.kind = "finite" /\ p.arg > q.arg
    \/ p.kind = "finite" /\ q.kind = "inf"
PosEQ(p, q) ==
    \/ p.kind = "finite" /\ q.kind = "finite" /\ p.arg = q.arg
    \/ p.kind = "inf" /\ q.kind = "inf"
PosLE(p, q) == PosLT(p, q) \/ PosEQ(p, q)
PosIsZero(p) == p.kind = "finite" /\ p.arg = YearQuarterDays
PosIsNegative(p) == p.kind = "finite" /\ p.arg > YearQuarterDays

\* a transform that reads the clock at every call
log_transform_date_now(dt, reference_date, now) ==
    LET days == DaysBetween(Cell(now), dt)
    IN  IF days.isna THEN NaNPos
        ELSE NegLog(4 * days.v + YearQuarterDays)

\* a transform without the + 1: -np.log(years_ago)
log_transform_date_no_offset(dt, reference_date, now) ==
    LET ref == IF reference_date.isna THEN Cell(now) ELSE reference_date
        days == DaysBetween(ref, dt)
    IN  IF days.isna THEN NaNPos
        ELSE NegLog(4 * days.v)

\* a transform with the subtraction the other way round: (dt - reference_date)
log_transform_date_swapped(dt, reference_date, now) ==
    LET ref == IF reference_date.isna THEN Cell(now) ELSE reference_date
        days == DaysBetween(dt, ref)
    IN  IF days.isna THEN NaNPos
        ELSE NegLog(4 * days.v + YearQuarterDays)

\* log_transform_date(dt, reference_date); now is what datetime.now() returns
\* at the call, read only when reference_date is None
log_transform_date(dt, reference_date, now) ==
    LET ref == IF reference_date.isna THEN Cell(now) ELSE reference_date
        days == DaysBetween(ref, dt)
    IN  IF days.isna THEN NaNPos
        ELSE NegLog(4 * days.v + YearQuarterDays)

(***************************************************************************)
(* Line width: max(2, 8 - years_since_start / 5), as num / WidthDen.       *)
(***************************************************************************)
MinWidth == 2
BaseWidth == 8
DecayRate == 5

WidthDen == DecayRate * YearQuarterDays

\* a width without the floor: 8 - (days / 365.25) / 5
line_width_unfloored(days) ==
    IF days.isna THEN MinWidth * WidthDen
    ELSE BaseWidth * WidthDen - 4 * days.v

\* max(2, 8 - (days / 365.25) / 5); Python's max(2, nan) is 2
line_width(days) ==
    IF days.isna THEN MinWidth * WidthDen
    ELSE LET w == BaseWidth * WidthDen - 4 * days.v
         IN  IF w > MinWidth * WidthDen THEN w ELSE MinWidth * WidthDen

(***************************************************************************)
(* df.sort_values(['category_order', 'start']): a stable sort, NaT last.   *)
(***************************************************************************)
StartLE(a, b) == IF a.isna THEN b.isna ELSE b.isna \/ a.v <= b.v

RowLE(a, b) ==
    \/ a.category_order < b.category_order
    \/ a.category_order = b.category_order /\ StartLE(a.start, b.start)

\* an insertion that keeps one row per sort key
InsertRowDropTies(s, r) ==
    IF \E i \in DOMAIN s : RowLE(s[i], r) /\ RowLE(r, s[i]) THEN s
    ELSE LET n == Cardinality({i \in DOMAIN s : RowLE(s[i], r)})
         IN  SubSeq(s, 1, n) \o <<r>> \o SubSeq(s, n + 1, Len(s))

\* r put behind the rows of the sorted s that are not after it
InsertRow(s, r) ==
    LET n == Cardinality({i \in DOMAIN s : RowLE(s[i], r)})
    IN  SubSeq(s, 1, n) \o <<r>> \o SubSeq(s, n + 1, Len(s))

RECURSIVE sort_values(_)
sort_values(s) ==
    IF s = << >> THEN << >>
    ELSE InsertRow(sort_values(SubSeq(s, 1, Len(s) - 1)), s[Len(s)])

(***************************************************************************)
(* The traces of one row: the line segment and the text label.             *)
(***************************************************************************)
\* (row['start_log'] + row['end_log']) / 2
mid_point_log(row) == [kind |-> "mean", of |-> <<row.start_log, row.end_log>>]

\* the first go.Scatter of the loop body, for the row at index i
LineTrace(i, row, ref) ==
    [mode |-> "lines",
     x |-> <<row.start_log, row.end_log>>,
     y |-> <<i, i>>,
     color |-> color_of(row.category),
     width |-> line_width(DaysBetween(ref, row.start)),
     name |-> row.category,
     text |-> row.clean_name]

\* the second go.Scatter of the loop body
TextTrace(i, row) ==
    [mode |-> "text",
     x |-> <<mid_point_log(row)>>,
     y |-> <<i>>,
     text |-> row.clean_name]

\* the traces the loop adds, in order: two per row, at y = 0, 1, ...
AllTraces(rows, ref) ==
    [k \in 1..(2 * Len(rows)) |->
        IF k % 2 = 1 THEN LineTrace((k - 1) \div 2, rows[(k + 1) \div 2], ref)
        ELSE TextTrace((k - 1) \div 2, rows[k \div 2])]

(***************************************************************************)
(* The run: main().                                                        *)
(***************************************************************************)
\* the first instant of the last tick year: the day the modelled runs start
ClockBase == JanFirst(TickYears[Len(TickYears)])

Running == pc \notin {"done", "aborted"}

\* the wall clock advances while the program runs
Tick ==
    /\ Running
    /\ clock < ClockBase + TicksPerDay - 1 + MaxClockAdvance
    /\ clock' = clock + 1
    /\ UNCHANGED <<csv, pc, today, df, traces, tickvals, title_now, artifacts, err>>

\* df = load_skills_data(): the rows of the file, the dates parsed
LoadData ==
    /\ pc = "load"
    /\ df' = csv
    /\ pc' = "capture"
    /\ UNCHANGED <<csv, clock, today, traces, tickvals, title_now, artifacts, err>>

\* today = datetime.now()
CaptureToday ==
    /\ pc = "capture"
    /\ today' = Cell(clock)
    /\ pc' = "transform"
    /\ UNCHANGED <<csv, clock, df, traces, tickvals, title_now, artifacts, err>>

\* df['start_log'], df['end_log']
TransformDates ==
    /\ pc = "transform"
    /\ df' = [i \in DOMAIN df |->
                [name |-> df[i].name, start |-> df[i].start, end |-> df[i].end,
                 start_log |-> log_transform_date(df[i].start, today, clock),
                 end_log |-> log_transform_date(df[i].end, today, clock)]]
    /\ pc' = "categorise"
    /\ UNCHANGED <<csv, clock, today, traces, tickvals, title_now, artifacts, err>>

\* df['category'], df['clean_name']; a missing name is the float nan, which
\* has no lower(): AttributeError
Categorise ==
    /\ pc = "categorise"
    /\ IF \E i \in DOMAIN df : df[i].name.isna
       THEN /\ pc' = "aborted"
            /\ err' = "AttributeError"
            /\ df' = df
       ELSE /\ pc' = "sort"
            /\ err' = err
            /\ df' = [i \in DOMAIN df |->
                        [name |-> df[i].name, start |-> df[i].start,
                         end |-> df[i].end,
                         start_log |-> df[i].start_log,
                         end_log |-> df[i].end_log,
                         category |-> categorise_skill(df[i].name.v),
                         clean_name |-> clean_name(df[i].name.v)]]
    /\ UNCHANGED <<csv, clock, today, traces, tickvals, title_now, artifacts>>

\* df['category_order'], sort_values, reset_index
SortRows ==
    /\ pc = "sort"
    /\ df' = sort_values(
                [i \in DOMAIN df |->
                    [name |-> df[i].name, start |-> df[i].start,
                     end |-> df[i].end,
                     start_log |-> df[i].start_log,
                     end_log |-> df[i].end_log,
                     category |-> df[i].category,
                     clean_name |-> df[i].clean_name,
                     category_order |-> category_order(df[i].category)]])
    /\ pc' = "traces"
    /\ UNCHANGED <<csv, clock, today, traces, tickvals, title_now, artifacts, err>>

\* the loop over df.iterrows(), row by row; NaT has no strftime, so the
\* first row with a missing date raises ValueError while its line trace is
\* being built, after the traces of the rows before it have been added
AddTraces ==
    /\ pc = "traces"
    /\ IF \E i \in DOMAIN df : df[i].start.isna \/ df[i].end.isna
       THEN /\ pc' = "aborted"
            /\ err' = "ValueError"
            /\ LET first == CHOOSE i \in DOMAIN df :
                              /\ df[i].start.isna \/ df[i].end.isna
                              /\ \A j \in 1..(i - 1) :
                                    ~(df[j].start.isna \/ df[j].end.isna)
               IN  traces' = AllTraces(SubSeq(df, 1, first - 1), today)
       ELSE /\ pc' = "layout"
            /\ err' = err
            /\ traces' = AllTraces(df, today)
    /\ UNCHANGED <<csv, clock, today, df, tickvals, title_now, artifacts>>

\* fig.update_layout: the title reads datetime.now() again, the tick values
\* are transformed with today
UpdateLayout ==
    /\ pc = "layout"
    /\ title_now' = Cell(clock)
    /\ tickvals' = [k \in DOMAIN TickYears |->
                      log_transform_date(Cell(JanFirst(TickYears[k])), today, clock)]
    /\ pc' = "save"
    /\ UNCHANGED <<csv, clock, today, df, traces, artifacts, err>>

\* save_timeline(fig): the PNG and the HTML
SaveTimeline ==
    /\ pc = "save"
    /\ artifacts' = {"public/skills.png", "public/timeline.html"}
    /\ pc' = "done"
    /\ UNCHANGED <<csv, clock, today, df, traces, tickvals, title_now, err>>

Next ==
    \/ Tick
    \/ LoadData
    \/ CaptureToday
    \/ TransformDates
    \/ Categorise
    \/ SortRows
    \/ AddTraces
    \/ UpdateLayout
    \/ SaveTimeline

(***************************************************************************)
(* Inputs. A run starts on the day ClockBase, at any time of the day.      *)
(***************************************************************************)
Start(table) ==
    /\ pc = "load"
    /\ clock \in ClockBase..(ClockBase + TicksPerDay - 1)
    /\ today = NaT
    /\ csv = table
    /\ df = << >>
    /\ traces = << >>
    /\ tickvals = << >>
    /\ title_now = NaT
    /\ artifacts = {}
    /\ err = "none"

Days(n) == n * TicksPerDay

Name1Python == <<"1"," ","P","y","t","h","o","n">>
Name2Git == <<"2"," ","G","i","t">>
Name3Docker == <<"3"," ","D","o","c","k","e","r">>
NameTCP == <<"T","C","P">>
NameAWS == <<"A","W","S">>

\* Tables of up to MaxEntries rows: three categories, starts from thirty years
\* back to the day of the run, all ended on the day of the run.
TableNames == {Name1Python, NameTCP, NameAWS}
TableStarts == {ClockBase - Days(10958), ClockBase - Days(10957),
                JanFirst(TickYears[Len(TickYears) - 1]), ClockBase}
TableRows ==
    {[name |-> Cell(n), start |-> Cell(s), end |-> Cell(ClockBase)] :
        n \in TableNames, s \in TableStarts}
Tables == UNION {[1..k -> TableRows] : k \in 0..MaxEntries}

Init == \E table \in Tables : Start(table)

Spec == Init /\ [][Next]_vars

\* One row, its dates anywhere around the run: whole days and parts of a day
\* before and after ClockBase, and the missing date.
DayOffsets == {-731, -366, -365, -1, 0, 1, 365, 1096, 10957, 10958}
DatePool ==
    {Cell(ClockBase - Days(d) + o) : d \in DayOffsets, o \in {0, 1}} \cup {NaT}

InitDates ==
    \E s \in DatePool, e \in DatePool :
        Start(<<[name |-> Cell(Name1Python), start |-> s, end |-> e]>>)

SpecDates == InitDates /\ [][Next]_vars

\* One row, its name any string of up to MaxNameLen characters of
\* NameAlphabet, one of the sample names, or missing.
NameAlphabet == {"R", "g", "O", "V", "i", "Q", "t"}
SampleNames ==
    {Name1Python, Name2Git, Name3Docker, NameTCP, NameAWS,
     <<"G","o","o","g","l","e"," ","C","l","o","u","d">>,
     <<"1","2"," ","H","u","g","o">>,
     <<"J","U","C","E">>,
     <<"E","x","c","e","l">>,
     <<"m","y"," "," ","s","q","l">>}
NamePool ==
    {Cell(n) : n \in SampleNames
                  \cup UNION {[1..k -> NameAlphabet] : k \in 0..MaxNameLen}}
        \cup {NaNName}

InitNames ==
    \E n \in NamePool :
        Start(<<[name |-> n,
                 start |-> Cell(JanFirst(TickYears[Len(TickYears) - 1])),
                 end |-> Cell(ClockBase)]>>)

SpecNames == InitNames /\ [][Next]_vars

(***************************************************************************)
(* Stages of a run that has not aborted.                                   *)
(***************************************************************************)
Transformed == pc \in {"categorise", "sort", "traces", "layout", "save", "done"}
Categorised == pc \in {"sort", "traces", "layout", "save", "done"}
Sorted == pc \in {"traces", "layout", "save", "done"}
Traced == pc \in {"layout", "save", "done"}
LaidOut == pc \in {"save", "done"}

Rows == DOMAIN df

(***************************************************************************)
(* C1, C2: the categoriser (checked under SpecNames).                      *)
(***************************************************************************)
\* a and b are the same character up to the case of an ASCII letter
SameLetter(a, b) ==
    \/ a = b
    \/ \E m \in DOMAIN UpperChars :
          \/ a = UpperChars[m] /\ b = LowerChars[m]
          \/ a = LowerChars[m] /\ b = UpperChars[m]

\* keyword occurs in name, case-insensitively
OccursIn(keyword, name) ==
    \E o \in 0..(Len(name) - Len(keyword)) :
        \A j \in 1..Len(keyword) : SameLetter(name[o + j], keyword[j])

\* the i-th category has a keyword occurring in name
CategoryMatches(i, name) ==
    \E j \in DOMAIN categories[i].keywords :
        OccursIn(categories[i].keywords[j], name)

EnumerationOrder ==
    <<"Programming", "Tools & Systems", "Protocols & Standards",
      "Platforms & Cloud", "Frameworks & Libraries", "Other">>

\* C1: every name is given exactly the first category, in the order
\* Programming, Tools & Systems, Protocols & Standards, Platforms & Cloud,
\* Frameworks & Libraries, Other, that has a keyword occurring in the full
\* name as a case-insensitive substring, and Other when none has.
C1_FirstMatchingCategory ==
    Categorised =>
        \A r \in Rows :
            LET name == df[r].name.v
                hits == {i \in DOMAIN EnumerationOrder : CategoryMatches(i, name)}
            IN  /\ [i \in DOMAIN categories |-> categories[i].name] = EnumerationOrder
                /\ \E i \in DOMAIN EnumerationOrder :
                      df[r].category = EnumerationOrder[i]
                /\ IF hits = {} THEN df[r].category = "Other"
                   ELSE \E i \in hits :
                           /\ \A h \in hits : i <= h
                           /\ df[r].category = EnumerationOrder[i]

\* a name that matches keywords of two categories, the later category by a
\* longer keyword, has been given the earlier category
C1_Witness ==
    /\ Categorised
    /\ \E r \in Rows :
          \E i, j \in DOMAIN categories :
              /\ i < j
              /\ CategoryMatches(i, df[r].name.v)
              /\ \E kj \in DOMAIN categories[j].keywords :
                    /\ OccursIn(categories[j].keywords[kj], df[r].name.v)
                    /\ \A ki \in DOMAIN categories[i].keywords :
                          OccursIn(categories[i].keywords[ki], df[r].name.v)
                              => Len(categories[i].keywords[ki])
                                    < Len(categories[j].keywords[kj])
              /\ df[r].category = categories[i].name

\* C2: the entry named "3 Docker" is categorised Tools & Systems and its
\* display name is "Docker".
C2_DockerIsToolsAndSystems ==
    Categorised =>
        \A r \in Rows :
            df[r].name.v = Name3Docker =>
                /\ df[r].category = "Tools & Systems"
                /\ df[r].clean_name = <<"D","o","c","k","e","r">>

(***************************************************************************)
(* C3, C9, C10: the layout (checked under Spec).                           *)
(***************************************************************************)
\* position of a category in the enumeration the categoriser iterates
EnumerationRank(category) ==
    CHOOSE i \in DOMAIN EnumerationOrder : EnumerationOrder[i] = category

\* C3: rows are ordered by the position of their category in the
\* enumeration Programming, Tools & Systems, Protocols & Standards,
\* Platforms & Cloud, Frameworks & Libraries, Other, then by start date: a
\* row of an earlier category, or of the same category and an earlier start,
\* has the smaller display index.
C3_SortedByEnumerationThenStart ==
    Sorted =>
        \A a, b \in Rows :
            (\/ EnumerationRank(df[a].category) < EnumerationRank(df[b].category)
             \/ /\ df[a].category = df[b].category
                /\ df[a].start.v < df[b].start.v)
                => a < b

\* the input triple of a row
Triple(row) == [name |-> row.name, start |-> row.start, end |-> row.end]

Occurrences(table, t) == Cardinality({i \in DOMAIN table : Triple(table[i]) = t})

\* C10: the display sequence is a permutation of the input rows, name,
\* start and end unchanged, and the row at sorted index i has its line
\* segment and its label at vertical position i, so n rows fill 0..n-1.
C10_PermutationOnRows ==
    /\ Sorted =>
          /\ Len(df) = Len(csv)
          /\ \A i \in DOMAIN csv :
                Occurrences(df, Triple(csv[i])) = Occurrences(csv, Triple(csv[i]))
    /\ Traced =>
          /\ Len(traces) = 2 * Len(df)
          /\ \A r \in Rows :
                /\ traces[2 * r - 1].mode = "lines"
                /\ traces[2 * r - 1].y = <<r - 1, r - 1>>
                /\ traces[2 * r - 1].x = <<df[r].start_log, df[r].end_log>>
                /\ traces[2 * r].mode = "text"
                /\ traces[2 * r].y = <<r - 1>>
                /\ traces[2 * r].text = df[r].clean_name
          /\ {traces[2 * r].y[1] : r \in Rows} = 0..(Len(df) - 1)

\* two rows have been drawn in another order than the file gave them
C10_Witness ==
    /\ Traced
    /\ Len(df) >= 2
    /\ Triple(df[1]) # Triple(csv[1])
    /\ traces[2].y # traces[4].y

\* whole days from the start of a row to today
RowAgeDays(r) == (today.v - df[r].start.v) \div TicksPerDay

\* C9: line_width = max(2, 8 - years_since_start / 5): 8 at 0 years, 2 from
\* 30 years on, never below 2, never above 8 for a start not after today,
\* and not increasing as the start recedes. Widths are in units of 1/WidthDen
\* and years_since_start = 4 * days / YearQuarterDays.
C9_LineWidth ==
    Traced =>
        \A r \in Rows :
            LET w == traces[2 * r - 1].width
                linear == BaseWidth * WidthDen - 4 * RowAgeDays(r)
            IN  /\ w >= MinWidth * WidthDen
                /\ w >= linear
                /\ w = MinWidth * WidthDen \/ w = linear
                /\ RowAgeDays(r) = 0 => w = 8 * WidthDen
                /\ 4 * RowAgeDays(r) >= 30 * YearQuarterDays => w = 2 * WidthDen
                /\ df[r].start.v <= today.v => w <= 8 * WidthDen
                /\ \A q \in Rows :
                      df[q].start.v <= df[r].start.v
                          => traces[2 * q - 1].width <= w

\* one row started today is drawn 8 wide, one started thirty years ago 2 wide
C9_Witness ==
    /\ Traced
    /\ \E r, q \in Rows :
          /\ RowAgeDays(r) = 0
          /\ traces[2 * r - 1].width = 8 * WidthDen
          /\ 4 * RowAgeDays(q) >= 30 * YearQuarterDays
          /\ 4 * (RowAgeDays(q) - 1) < 30 * YearQuarterDays
          /\ traces[2 * q - 1].width = 2 * WidthDen

(***************************************************************************)
(* C4 - C8: the date transform and the run (checked under SpecDates).      *)
(***************************************************************************)
\* the dates of the rows that are present
RowDates(r) == {d \in {df[r].start, df[r].end} : ~d.isna}

\* years_elapsed + 1, in units of 1/YearQuarterDays, of a date under today
ElapsedPlusOne(d) ==
    4 * ((today.v - d.v) \div TicksPerDay) + YearQuarterDays

\* C4: a date after the reference date with years_elapsed + 1 <= 0 makes
\* the transform fail, so no run holding such a date goes on to the layout
\* and the rendering.
C4_FutureDateStopsTheRun ==
    pc = "done" =>
        \A r \in Rows : \A d \in RowDates(r) :
            ~(d.v > today.v /\ ElapsedPlusOne(d) <= 0)

\* a record of the file with every field present and end >= start
WellFormed(rec) ==
    /\ ~rec.name.isna
    /\ ~rec.start.isna
    /\ ~rec.end.isna
    /\ rec.end.v >= rec.start.v

\* C5: the renderer is reached, and an artifact written, only when every
\* record of the input is well formed.
C5_MalformedRecordAborts ==
    (pc \in {"save", "done"} \/ artifacts # {}) =>
        \A i \in DOMAIN csv : WellFormed(csv[i])

\* the position of date d under the reference instant ref
PositionUnder(d, ref) ==
    IF d.isna THEN NaNPos
    ELSE NegLog(4 * ((ref - d.v) \div TicksPerDay) + YearQuarterDays)

\* C6: every position and every line-width age of a run is computed from
\* the one reference instant captured at its start, whatever the wall clock
\* has done since; so the tick of Jan 1 of a year is at the position of any
\* row start or end on that instant.
C6_OneReferenceDate ==
    /\ Transformed =>
          /\ ~today.isna
          /\ \A r \in Rows :
                /\ df[r].start_log = PositionUnder(df[r].start, today.v)
                /\ df[r].end_log = PositionUnder(df[r].end, today.v)
    /\ Traced =>
          \A r \in Rows :
              traces[2 * r - 1].width
                  = line_width(Cell((today.v - df[r].start.v) \div TicksPerDay))
    /\ LaidOut =>
          \A k \in DOMAIN TickYears :
              /\ tickvals[k] = PositionUnder(Cell(JanFirst(TickYears[k])), today.v)
              /\ \A r \in Rows :
                    /\ df[r].start = Cell(JanFirst(TickYears[k]))
                          => tickvals[k] = df[r].start_log
                    /\ df[r].end = Cell(JanFirst(TickYears[k]))
                          => tickvals[k] = df[r].end_log

\* the clock has passed midnight since today was captured, and a row that
\* starts on Jan 1 of a tick year is at that tick
C6_Witness ==
    /\ LaidOut
    /\ title_now.v \div TicksPerDay > today.v \div TicksPerDay
    /\ \E r \in Rows, k \in DOMAIN TickYears :
          /\ df[r].start = Cell(JanFirst(TickYears[k]))
          /\ tickvals[k] = df[r].start_log
          /\ tickvals[k].kind = "finite"

\* C7 as first stated: for d <= reference_date the position is <= 0, and is
\* 0 if and only if d = reference_date.
C7_ZeroOnlyAtReference ==
    Transformed =>
        \A r \in Rows :
            /\ (~df[r].start.isna /\ df[r].start.v <= today.v) =>
                  /\ PosIsZero(df[r].start_log) \/ PosIsNegative(df[r].start_log)
                  /\ PosIsZero(df[r].start_log) <=> df[r].start.v = today.v
            /\ (~df[r].end.isna /\ df[r].end.v <= today.v) =>
                  /\ PosIsZero(df[r].end_log) \/ PosIsNegative(df[r].end_log)
                  /\ PosIsZero(df[r].end_log) <=> df[r].end.v = today.v

\* C7, amended: for d <= reference_date the position is <= 0, and is 0 if
\* and only if less than one whole day lies between d and reference_date;
\* a date one whole day or more before it has a strictly negative position.
C7_ZeroWithinADay ==
    Transformed =>
        \A r \in Rows :
            /\ (~df[r].start.isna /\ df[r].start.v <= today.v) =>
                  /\ PosIsZero(df[r].start_log) \/ PosIsNegative(df[r].start_log)
                  /\ PosIsZero(df[r].start_log)
                        <=> today.v - df[r].start.v < TicksPerDay
            /\ (~df[r].end.isna /\ df[r].end.v <= today.v) =>
                  /\ PosIsZero(df[r].end_log) \/ PosIsNegative(df[r].end_log)
                  /\ PosIsZero(df[r].end_log)
                        <=> today.v - df[r].end.v < TicksPerDay

\* a start earlier than today by less than a day is at 0, and an end a
\* whole day or more before today is below 0
C7_Witness ==
    /\ Transformed
    /\ \E r \in Rows :
          /\ ~df[r].start.isna /\ ~df[r].end.isna
          /\ df[r].start.v < today.v
          /\ PosIsZero(df[r].start_log)
          /\ today.v - df[r].end.v >= TicksPerDay
          /\ PosIsNegative(df[r].end_log)

\* C8 as first stated: d1 < d2 <= reference_date gives transform(d1) <
\* transform(d2), so start < end <= reference_date gives start_pos < end_pos;
\* start = end gives start_pos = end_pos.
C8_StrictlyMonotone ==
    Transformed =>
        \A r \in Rows :
            (~df[r].start.isna /\ ~df[r].end.isna /\ df[r].end.v <= today.v) =>
                /\ df[r].start.v < df[r].end.v
                      => PosLT(df[r].start_log, df[r].end_log)
                /\ df[r].start.v = df[r].end.v
                      => PosEQ(df[r].start_log, df[r].end_log)

\* C8, amended: d1 <= d2 <= reference_date gives transform(d1) <=
\* transform(d2), strictly when d2 is a whole day or more after d1; start =
\* end gives start_pos = end_pos.
C8_MonotoneByWholeDays ==
    Transformed =>
        \A r \in Rows :
            (~df[r].start.isna /\ ~df[r].end.isna /\ df[r].end.v <= today.v) =>
                /\ df[r].start.v <= df[r].end.v
                      => PosLE(df[r].start_log, df[r].end_log)
                /\ df[r].end.v - df[r].start.v >= TicksPerDay
                      => PosLT(df[r].start_log, df[r].end_log)
                /\ df[r].start.v = df[r].end.v
                      => PosEQ(df[r].start_log, df[r].end_log)

\* a row that ends a whole day or more after its start, at a greater
\* position
C8_Witness ==
    /\ Transformed
    /\ \E r \in Rows :
          /\ ~df[r].start.isna /\ ~df[r].end.isna
          /\ df[r].end.v <= today.v
          /\ df[r].end.v - df[r].start.v >= TicksPerDay
          /\ PosLT(df[r].start_log, df[r].end_log)

====
